---- MODULE Spec2Model ----
(***************************************************************************)
(* A model of the Neuro game SDK client: the base NeuroClient (connection, *)
(* envelope, send) and the NeuroClientWrapper built on it (action          *)
(* registry, schema validation, handler dispatch).                         *)
(*                                                                         *)
(* Every operation of the client is one action.  An action records what    *)
(* the operation did in the variable `last`: the messages it handed to     *)
(* sendMessage, the frames that reached the socket, the log entries, the   *)
(* handler invocations and whether it ended by throwing.  The record is    *)
(* cleared when the operation has returned.                                *)
(***************************************************************************)
EXTENDS Integers, Sequences, FiniteSets, TLC

VARIABLES
    client,             \* which class was constructed
    url,                \* NeuroClient.url
    transports,         \* every WebSocket created so far; this.ws is the last one
    actionHandlers,     \* NeuroClient.actionHandlers
    registeredActions,  \* NeuroClientWrapper.registeredActions
    last                \* the effects of the operation that ran last

vars == <<client, url, transports, actionHandlers, registeredActions, last>>

----------------------------------------------------------------------------
(* Bounds *)

MaxReg == 2          \* operations that would grow the registry past this are not taken
MaxHandlers == 2     \* onAction is called at most this many times
MaxTransports == 2   \* connect() runs at most this many times

----------------------------------------------------------------------------
(* Sequence helpers *)

Range(s) == {s[i] : i \in 1..Len(s)}

RECURSIVE Join(_, _)
\* Array.prototype.join
Join(parts, sep) ==
    IF Len(parts) = 0 THEN ""
    ELSE IF Len(parts) = 1 THEN parts[1]
    ELSE parts[1] \o sep \o Join(Tail(parts), sep)

\* String.prototype.startsWith
StartsWith(s, p) == Len(s) >= Len(p) /\ SubSeq(s, 1, Len(p)) = p

\* String.prototype.substring(n)
Substring(s, n) == SubSeq(s, n + 1, Len(s))

\* String.prototype.includes
Includes(s, t) == \E i \in 1..(Len(s) - Len(t) + 1) : SubSeq(s, i, i + Len(t) - 1) = t

\* a search that returns the last entry of the name, not the first
FindLastIndex(reg, n) ==
    IF \E i \in 1..Len(reg) : reg[i].name = n
    THEN CHOOSE i \in 1..Len(reg) :
            /\ reg[i].name = n
            /\ \A j \in (i + 1)..Len(reg) : reg[j].name # n
    ELSE 0

\* Array.prototype.findIndex over names, 1-based; 0 stands for -1
FindIndex(reg, n) ==
    IF \E i \in 1..Len(reg) : reg[i].name = n
    THEN CHOOSE i \in 1..Len(reg) :
            /\ reg[i].name = n
            /\ \A j \in 1..(i - 1) : reg[j].name # n
    ELSE 0

\* Array.prototype.splice(i, 1)
Splice(reg, i) == SubSeq(reg, 1, i - 1) \o SubSeq(reg, i + 1, Len(reg))

Names(reg) == [i \in 1..Len(reg) |-> reg[i].name]

----------------------------------------------------------------------------
(* Schemas, actions, JSON *)

\* Action.schema left out
NoSchema == [defined |-> FALSE, type |-> "", properties |-> <<>>]
\* schema: {}
EmptySchema == [defined |-> TRUE, type |-> "", properties |-> <<>>]
\* schema: {type: "object", properties: {number: {type: "integer", minimum: 1, maximum: 10},
\*                                       tries:  {type: "integer", minimum: 1, maximum: 3}}}
NumberSchema ==
    [defined |-> TRUE, type |-> "object",
     properties |-> << [key |-> "number", minimum |-> 1, maximum |-> 10],
                       [key |-> "tries",  minimum |-> 1, maximum |-> 3] >>]

\* Object.keys(schema)
ObjectKeys(schema) ==
    (IF schema.type # "" THEN {"type"} ELSE {})
        \cup (IF Len(schema.properties) > 0 THEN {"properties"} ELSE {})

GuessNumber == [name |-> "a", schema |-> NumberSchema]
PlainA      == [name |-> "a", schema |-> NoSchema]
EmptyB      == [name |-> "b", schema |-> EmptySchema]

ActionNames == {"a", "b"}

\* the argument lists registerActions is called with
ActionLists ==
    { <<GuessNumber>>, <<PlainA>>, <<EmptyB>>,
      <<GuessNumber, EmptyB>>, <<PlainA, PlainA>>, <<EmptyB, GuessNumber>> }

\* the argument lists unregisterActions is called with
NameLists == { <<"a">>, <<"b">>, <<"a", "b">>, <<"b", "a">>, <<"a", "a">> }

\* decoded JSON values
JObject(members) == [type |-> "object", int |-> 0, members |-> members]
JInteger(n) == [type |-> "integer", int |-> n, members |-> {}]
JNull == [type |-> "null", int |-> 0, members |-> {}]

\* the texts an action request carries in its data field
DataTexts ==
    { "", "{}", "{\"number\":5}", "{\"number\":99}",
      "{\"number\":99,\"tries\":0}", "7", "{number:5}" }

\* JSON.parse on the texts above: the decoded value, or the SyntaxError it throws
JSONparse(text) ==
    CASE text = "{}" -> [ok |-> TRUE, value |-> JObject({}), error |-> ""]
      [] text = "{\"number\":5}" ->
            [ok |-> TRUE, value |-> JObject({<<"number", 5>>}), error |-> ""]
      [] text = "{\"number\":99}" ->
            [ok |-> TRUE, value |-> JObject({<<"number", 99>>}), error |-> ""]
      [] text = "{\"number\":99,\"tries\":0}" ->
            [ok |-> TRUE, value |-> JObject({<<"number", 99>>, <<"tries", 0>>}), error |-> ""]
      [] text = "7" -> [ok |-> TRUE, value |-> JInteger(7), error |-> ""]
      [] text = "null" -> [ok |-> TRUE, value |-> JNull, error |-> ""]
      [] text = "" ->
            [ok |-> FALSE, value |-> JNull, error |-> "Unexpected end of JSON input"]
      [] OTHER ->
            [ok |-> FALSE, value |-> JNull,
             error |-> "Unexpected token " \o SubSeq(text, 2, 2) \o " in JSON at position 1"]

\* jsonschema: the errors of one property of an object instance
PropertyErrors(instance, p) ==
    IF \E m \in instance.members : m[1] = p.key
    THEN LET v == (CHOOSE m \in instance.members : m[1] = p.key)[2]
         IN  (IF v < p.minimum
              THEN << "instance." \o p.key \o " must be greater than or equal to "
                        \o ToString(p.minimum) >>
              ELSE <<>>)
             \o
             (IF v > p.maximum
              THEN << "instance." \o p.key \o " must be less than or equal to "
                        \o ToString(p.maximum) >>
              ELSE <<>>)
    ELSE <<>>

RECURSIVE PropertiesErrors(_, _)
PropertiesErrors(instance, props) ==
    IF Len(props) = 0 THEN <<>>
    ELSE PropertyErrors(instance, Head(props)) \o PropertiesErrors(instance, Tail(props))

\* jsonschema validate(instance, schema): the stacks of the errors it reports
Validate(instance, schema) ==
    LET errors ==
            (IF schema.type = "object" /\ instance.type # "object"
             THEN << "instance is not of a type(s) object" >>
             ELSE <<>>)
            \o
            (IF instance.type = "object"
             THEN PropertiesErrors(instance, schema.properties)
             ELSE <<>>)
    IN  [valid |-> Len(errors) = 0, errors |-> errors]

----------------------------------------------------------------------------
(* Messages, log entries, effects *)

Game == "g"

\* fields of a message's data that may hold undefined; JSON.stringify leaves those out
OptionalFields == {"state", "message", "ephemeral_context", "priority", "silent"}

NoData == [k \in {} |-> ""]

\* JSON.stringify(message), as the frame the peer decodes
Stringify(message) ==
    [command |-> message.command,
     game    |-> message.game,
     data    |-> [k \in {f \in DOMAIN message.data :
                            ~(f \in OptionalFields /\ message.data[f] = "undefined")}
                    |-> message.data[k]]]

Log(sink, level, text) == [sink |-> sink, level |-> level, text |-> text]

\* the order of the sends and the calls of a piece of code that only sends or only calls
Trace(attempts, calls) ==
    [i \in 1..Len(attempts) |-> "send " \o attempts[i].command]
        \o [i \in 1..Len(calls) |-> "call " \o calls[i].handler]

\* what a piece of code did: messages handed to sendMessage, frames handed to the
\* socket, log entries, handler invocations, the exception that ended it, the registry,
\* and the order in which the sends and the calls were made
Effects(attempts, frames, logs, calls, thrown, reg) ==
    [attempts |-> attempts, frames |-> frames, logs |-> logs, calls |-> calls,
     thrown |-> thrown, reg |-> reg, trace |-> Trace(attempts, calls)]

Nothing(reg) == Effects(<<>>, <<>>, <<>>, <<>>, "", reg)

Logged(entry, reg) == Effects(<<>>, <<>>, <<entry>>, <<>>, "", reg)

Thrown(what, reg) == Effects(<<>>, <<>>, <<>>, <<>>, what, reg)

\* e1 ; e2  -- nothing after a throw runs
Then(e1, e2) ==
    IF e1.thrown # "" THEN e1
    ELSE [attempts |-> e1.attempts \o e2.attempts, frames |-> e1.frames \o e2.frames,
          logs |-> e1.logs \o e2.logs, calls |-> e1.calls \o e2.calls,
          thrown |-> e2.thrown, reg |-> e2.reg, trace |-> e1.trace \o e2.trace]

----------------------------------------------------------------------------
(* NeuroClient: transport and send *)

\* the object a method runs on: whether this.ws is OPEN, this.actionHandlers and
\* this.registeredActions, as they stand when the method is entered
This(wsOpen, handlers, reg) == [wsOpen |-> wsOpen, handlers |-> handlers, reg |-> reg]

\* a send that does not look at the readyState
sendMessageAnyState(this, message, reg) ==
    Effects(<<message>>, <<Stringify(message)>>, <<>>, <<>>, "", reg)

sendMessage(this, message, reg) ==
    IF this.wsOpen
    THEN Effects(<<message>>, <<Stringify(message)>>, <<>>, <<>>, "", reg)
    ELSE Effects(<<message>>, <<>>,
                 << Log("console", "ERROR", "[NeuroClient] WebSocket is not open. Ready state:") >>,
                 <<>>, "", reg)

sendStartup(this, reg) ==
    sendMessage(this, [command |-> "startup", game |-> Game, data |-> NoData], reg)

\* a result that carries the id of an earlier request
sendActionResultStaleId(this, id, success, messageText, reg) ==
    Then(IF ~success
         THEN Logged(Log("console", "WARN",
                         "[NeuroClient] Empty messageText field even though success was false!"), reg)
         ELSE Nothing(reg),
         sendMessage(this, [command |-> "action/result", game |-> Game,
                      data |-> [id |-> "r1", success |-> success, message |-> messageText]], reg))

sendActionResult(this, id, success, messageText, reg) ==
    Then(IF ~success
         THEN Logged(Log("console", "WARN",
                         "[NeuroClient] Empty messageText field even though success was false!"), reg)
         ELSE Nothing(reg),
         sendMessage(this, [command |-> "action/result", game |-> Game,
                      data |-> [id |-> id, success |-> success, message |-> messageText]], reg))

----------------------------------------------------------------------------
(* Action requests and handler invocation *)

\* ActionMessageData; defined = FALSE is an action frame that carries no data object
Request(id, name, present, text) ==
    [defined |-> TRUE, id |-> id, name |-> name, data |-> [present |-> present, text |-> text]]

NoRequest == [defined |-> FALSE, id |-> "", name |-> "", data |-> [present |-> FALSE, text |-> ""]]

\* ActionData handed to a handler
Invocation(id, name, params) == [id |-> id, name |-> name, params |-> params]

Call(handler, this, arg) == [handler |-> handler, this |-> this, arg |-> arg]

\* handler(actionData), a plain function call.  The entry the wrapper's constructor pushed
\* is the unbound method handleActionMessage: it runs with this undefined and the
\* ActionData as data, skips parsing (data.data is undefined) and throws on reading
\* this.registeredActions.  The entry _wrapper pushes, its unbound actionHandler, throws
\* likewise on reading this.actionsArray.  A handler given to onAction is the game's code.
CallHandler(handler, invocation, reg) ==
    IF handler \in {"handleActionMessage", "actionHandler"}
    THEN Effects(<<>>, <<>>, <<>>, << Call(handler, "undefined", invocation) >>, "TypeError", reg)
    ELSE Effects(<<>>, <<>>, <<>>, << Call(handler, "game", invocation) >>, "", reg)

RECURSIVE CallHandlers(_, _, _)
\* for (const handler of this.actionHandlers) handler({id, name, params})
CallHandlers(handlers, invocation, reg) ==
    IF Len(handlers) = 0 THEN Nothing(reg)
    ELSE Then(CallHandler(Head(handlers), invocation, reg),
              CallHandlers(Tail(handlers), invocation, reg))

\* NeuroClient.handleActionMessage, the parsing of data.data: {} unless data.data is truthy
BaseParseParams(data) ==
    IF data.data.present /\ data.data.text # ""
    THEN JSONparse(data.data.text)
    ELSE [ok |-> TRUE, value |-> JObject({}), error |-> ""]

\* NeuroClient.handleActionMessage
BaseHandleActionMessage(this, data) ==
    LET handlers == this.handlers
        reg == this.reg IN
    IF ~data.defined THEN Thrown("TypeError", reg)
    ELSE LET parsed == BaseParseParams(data) IN
         IF ~parsed.ok
         THEN LET errorMessage == "Invalid action data: " \o parsed.error IN
              Then(sendActionResult(this, data.id, FALSE, errorMessage, reg),
                   Logged(Log("console", "ERROR", "[NeuroClient] " \o errorMessage), reg))
         ELSE IF Len(handlers) > 0
              THEN CallHandlers(handlers, Invocation(data.id, data.name, parsed.value), reg)
              ELSE Logged(Log("console", "WARN", "[NeuroClient] No action handlers registered."), reg)

\* the error lines of a failed validation, a leading "instance." cut off
StripInstance(stack) ==
    IF StartsWith(stack, "instance.") THEN Substring(stack, 9) ELSE stack

MessagesArray(errors) ==
    LET stripped == [i \in 1..Len(errors) |-> StripInstance(errors[i])]
    IN  IF Len(stripped) = 0 THEN << "Unknown schema validation error." >> ELSE stripped

SchemaFailures(errors) == "- " \o Join(MessagesArray(errors), "\n- ")

\* the template literal of the schema-failure result: inside the backticks the quotes
\* and plus signs around schemaFailures are text, so the variable is never interpolated
SchemaFailureMessage(name, schemaFailures) ==
    "[NeuroClientWrapper] Your inputs for the action \"" \o name
        \o "\" did not pass schema validation.\n\n' + schemaFailures + '\n\n"
        \o "Please pay attention to the schema and the above errors if you choose to retry."

UnknownActionMessage(name) == "[NeuroClientWrapper] Unknown action: \"" \o name \o "\""

\* a parse failure that is caught but not returned from: the handler goes on with {}
ParseParamsSwallowed(data) == [ok |-> TRUE, value |-> JObject({}), error |-> ""]

\* NeuroClientWrapper.handleActionMessage, the parsing of data.data
ParseParams(data) ==
    IF data.data.present /\ data.data.text # ""
    THEN JSONparse(data.data.text)
    ELSE [ok |-> TRUE, value |-> JObject({}), error |-> ""]

\* the answer to an unknown action, reported as a failure
UnknownActionFailed(this, data) ==
    sendActionResult(this, data.id, FALSE, UnknownActionMessage(data.name), this.reg)

\* if (!action) { sendActionResult(id, true, 'Unknown action'); return }
UnknownAction(this, data) ==
    sendActionResult(this, data.id, TRUE, UnknownActionMessage(data.name), this.reg)

\* the schema test with its comparison turned round
HasSchemaInverted(schema) == schema.defined /\ Cardinality(ObjectKeys(schema)) = 0

\* action.schema && Object.keys(action.schema).length !== 0
HasSchema(schema) == schema.defined /\ Cardinality(ObjectKeys(schema)) # 0

\* NeuroClientWrapper.handleActionMessage, called on the wrapper by handleMessage
handleActionMessage(this, data) ==
    LET handlers == this.handlers
        reg == this.reg IN
    IF ~data.defined THEN Thrown("TypeError", reg)
    ELSE LET parsed == ParseParams(data) IN
         IF ~parsed.ok
         THEN LET errorMessage == "Invalid action data: " \o parsed.error IN
              Then(sendActionResult(this, data.id, FALSE, errorMessage, reg),
                   Logged(Log("console", "ERROR", "[NeuroClientWrapper] " \o errorMessage), reg))
         ELSE LET i == FindIndex(reg, data.name) IN
              IF i = 0
              THEN UnknownAction(this, data)
              ELSE LET schema == reg[i].schema
                       result == Validate(parsed.value, schema)
                   IN  IF HasSchema(schema) /\ ~result.valid
                       THEN sendActionResult(this, data.id, FALSE,
                                SchemaFailureMessage(data.name, SchemaFailures(result.errors)), reg)
                       ELSE IF Len(handlers) > 0
                            THEN CallHandlers(handlers,
                                     Invocation(data.id, data.name, parsed.value), reg)
                            ELSE Logged(Log("loggingHandler", "ERROR",
                                     "[NeuroClientWrapper] No action handlers registered."), reg)

----------------------------------------------------------------------------
(* NeuroClientWrapper: the registry *)

\* a scan for the names that come twice in `actions`, not for those in the registry
KnownActionsWithinCall(actions, reg) ==
    SelectSeq(Names(actions),
              LAMBDA n : \E i, j \in 1..Len(actions) :
                            i # j /\ actions[i].name = n /\ actions[j].name = n)

\* the names of `actions` already in the registry, in order
KnownActions(actions, reg) ==
    SelectSeq(Names(actions), LAMBDA n : FindIndex(reg, n) # 0)

DuplicateWarning(known) ==
    Log("loggingHandler", "WARN",
        "Duplicate action registered: \"" \o Join(known, "\", \"")
            \o "\"\nThe Neuro server will ignore those registrations.")

\* a registration that leaves the duplicates out of the message
registerActionsFiltered(this, actions, aliased) ==
    LET reg    == this.reg
        known  == KnownActions(actions, reg)
        pushed == reg \o actions
        listed == SelectSeq(actions, LAMBDA a : FindIndex(reg, a.name) = 0)
    IN  Then(IF Len(known) # 0 THEN Logged(DuplicateWarning(known), pushed) ELSE Nothing(pushed),
             sendMessage(this, [command |-> "actions/register", game |-> Game,
                          data |-> [actions |-> listed]], pushed))

\* NeuroClientWrapper.registerActions.  `aliased` says that `actions` is the registry
\* array itself (the reregister_all call): the push then appends to the argument too,
\* and the message, built after the push, lists the grown array.
registerActions(this, actions, aliased) ==
    LET reg    == this.reg
        known  == KnownActions(actions, reg)
        pushed == reg \o actions
        listed == IF aliased THEN pushed ELSE actions
    IN  Then(IF Len(known) # 0 THEN Logged(DuplicateWarning(known), pushed) ELSE Nothing(pushed),
             sendMessage(this, [command |-> "actions/register", game |-> Game,
                          data |-> [actions |-> listed]], pushed))

RECURSIVE UnregisterLoop(_, _, _)
\* the for loop of unregisterActions: a name that is not found indexes the registry
\* with -1, which is undefined, and reading its name throws
UnregisterLoop(actionNames, unknownNames, reg) ==
    IF Len(actionNames) = 0
    THEN [thrown |-> "", unknownNames |-> unknownNames, reg |-> reg]
    ELSE LET action == FindIndex(reg, Head(actionNames)) IN
         IF action = 0
         THEN [thrown |-> "TypeError", unknownNames |-> unknownNames, reg |-> reg]
         ELSE UnregisterLoop(Tail(actionNames), unknownNames, Splice(reg, action))

NotRegisteredInfo(unknownNames) ==
    Log("loggingHandler", "INFO",
        "Actions not registered: \"" \o Join(unknownNames, "\", \"")
            \o "\"\nThe Neuro server will ignore those unregistrations.")

\* NeuroClientWrapper.unregisterActions
unregisterActions(this, actionNames) ==
    LET loop == UnregisterLoop(actionNames, <<>>, this.reg) IN
    IF loop.thrown # "" THEN Thrown(loop.thrown, loop.reg)
    ELSE Then(IF Len(loop.unknownNames) # 0
              THEN Logged(NotRegisteredInfo(loop.unknownNames), loop.reg)
              ELSE Nothing(loop.reg),
              sendMessage(this, [command |-> "actions/unregister", game |-> Game,
                           data |-> [action_names |-> actionNames]], loop.reg))

\* NeuroClient.registerActions and NeuroClient.unregisterActions: send only
BaseRegisterActions(this, actions) ==
    sendMessage(this, [command |-> "actions/register", game |-> Game,
                 data |-> [actions |-> actions]], this.reg)

BaseUnregisterActions(this, actionNames) ==
    sendMessage(this, [command |-> "actions/unregister", game |-> Game,
                 data |-> [action_names |-> actionNames]], this.reg)

----------------------------------------------------------------------------
(* forceActions *)

\* ActionForcePriorityEnum.LOW
LOW == "low"

\* the arguments of forceActions; "undefined" is an argument left out
Force(query, state, ephemeralContext, priority) ==
    [query |-> query, state |-> state, ephemeralContext |-> ephemeralContext,
     priority |-> priority]

NoForce == Force("", "undefined", "undefined", "undefined")

ForceNameLists == { <<>>, <<"a">>, <<"a", "b">>, <<"a", "b", "c">> }

\* the calls made: with only the query and the names, and with every argument
Forces == { Force("q", "undefined", "undefined", "undefined"),
            Force("q", "s", "true", "high") }

\* the requested names that no registry entry carries, in order
UnknownNames(actionNames, reg) ==
    SelectSeq(actionNames, LAMBDA n : FindIndex(reg, n) = 0)

AllUnknownError ==
    Log("loggingHandler", "ERROR",
        "All specified actions are unknown to Neuro, the action force will be dropped.")

UnknownNamesWarning(unknownNames) ==
    Log("loggingHandler", "WARN",
        "Unknown actions specified in force: \"" \o Join(unknownNames, "\", \"")
            \o "\". These actions will not be considered by Neuro.")

\* the if / else if on unknownNames.length
ForceLog(actionNames, unknownNames, reg) ==
    IF Len(unknownNames) = Len(actionNames) THEN Logged(AllUnknownError, reg)
    ELSE IF Len(unknownNames) > 1 THEN Logged(UnknownNamesWarning(unknownNames), reg)
    ELSE Nothing(reg)

ForceMessage(actionNames, force) ==
    [command |-> "actions/force", game |-> Game,
     data |-> [state |-> force.state, query |-> force.query,
               ephemeral_context |-> force.ephemeralContext,
               priority |-> force.priority, action_names |-> actionNames]]

\* a force that is not sent when every name is unknown
forceActionsDropped(this, actionNames, force) ==
    LET unknownNames == UnknownNames(actionNames, this.reg) IN
    IF Len(unknownNames) = Len(actionNames) THEN Logged(AllUnknownError, this.reg)
    ELSE Then(ForceLog(actionNames, unknownNames, this.reg),
              sendMessage(this, ForceMessage(actionNames, force), this.reg))

\* a force that lists the registered names only
forceActionsFiltered(this, actionNames, force) ==
    LET unknownNames == UnknownNames(actionNames, this.reg) IN
    Then(ForceLog(actionNames, unknownNames, this.reg),
         sendMessage(this,
             ForceMessage(SelectSeq(actionNames, LAMBDA n : FindIndex(this.reg, n) # 0), force),
             this.reg))

\* NeuroClientWrapper.forceActions: no parameter has a default value
forceActions(this, actionNames, force) ==
    LET unknownNames == UnknownNames(actionNames, this.reg) IN
    Then(ForceLog(actionNames, unknownNames, this.reg),
         sendMessage(this, ForceMessage(actionNames, force), this.reg))

\* a parameter with a default value: the default stands in for undefined
Default(value, default) == IF value = "undefined" THEN default ELSE value

\* NeuroClient.forceActions: ephemeralContext = false, priority = LOW by default
BaseForceActions(this, actionNames, force) ==
    sendMessage(this,
        ForceMessage(actionNames,
            Force(force.query, force.state, Default(force.ephemeralContext, "false"),
                  Default(force.priority, LOW))),
        this.reg)

----------------------------------------------------------------------------
(* sendContext *)

\* sendContext(messageText) and sendContext(messageText, true)
Silents == {"undefined", "true"}

ContextMessage(messageText, silent) ==
    [command |-> "context", game |-> Game,
     data |-> [message |-> messageText, silent |-> silent]]

\* NeuroClientWrapper.sendContext: silent has no default value
sendContext(this, messageText, silent) ==
    Then(Logged(Log("loggingHandler", "DEBUG",
                    "Sending " \o (IF silent = "true" THEN "silent " ELSE "")
                        \o "context to Neuro"), this.reg),
         sendMessage(this, ContextMessage(messageText, silent), this.reg))

\* NeuroClient.sendContext: silent = false by default
BaseSendContext(this, messageText, silent) ==
    sendMessage(this, ContextMessage(messageText, Default(silent, "false")), this.reg)

----------------------------------------------------------------------------
(* Inbound frames and handleMessage *)

\* a text frame: syntax says what JSON.parse makes of it
Frame(syntax, command, data) == [syntax |-> syntax, command |-> command, data |-> data]

NoFrame == Frame("", "", NoRequest)

RequestIds == {"r1"}

ActionRequests ==
    { Request(id, "a", FALSE, "") : id \in RequestIds }
        \cup { Request(id, "a", TRUE, t) : id \in RequestIds, t \in DataTexts }
        \cup { Request(id, "b", FALSE, "") : id \in RequestIds }
        \cup { Request(id, "b", TRUE, t) : id \in RequestIds, t \in {"{\"number\":99}", "{number:5}"} }
        \cup { Request("r2", "b", FALSE, "") }

InFrames ==
    { Frame("json", "action", r) : r \in ActionRequests }
        \cup { Frame("json", "action", NoRequest),
               Frame("json", "actions/reregister_all", NoRequest),
               Frame("json", "shutdown/graceful", NoRequest),
               Frame("null", "", NoRequest),
               Frame("malformed", "", NoRequest) }

\* a handleMessage whose catch block logs and does not return
handleMessageNoReturn(this, frame) ==
    IF frame.syntax = "malformed"
    THEN Then(Logged(Log("loggingHandler", "ERROR",
                         "[NeuroClientWrapper] Invalid JSON received: "), this.reg),
              Thrown("TypeError", this.reg))
    ELSE IF frame.syntax = "null"
    THEN Thrown("TypeError", this.reg)
    ELSE CASE frame.command = "action" -> handleActionMessage(this, frame.data)
           [] frame.command = "actions/reregister_all" -> registerActions(this, this.reg, TRUE)
           [] OTHER ->
                Logged(Log("loggingHandler", "WARN",
                           "[NeuroClientWrapper] Received unknown/unimplemented command: "
                               \o frame.command), this.reg)

\* NeuroClientWrapper.handleMessage
handleMessage(this, frame) ==
    IF frame.syntax = "malformed"
    THEN Logged(Log("loggingHandler", "ERROR", "[NeuroClientWrapper] Invalid JSON received: "),
                this.reg)
    ELSE IF frame.syntax = "null"
    THEN Thrown("TypeError", this.reg)     \* message.command of null
    ELSE CASE frame.command = "action" -> handleActionMessage(this, frame.data)
           [] frame.command = "actions/reregister_all" -> registerActions(this, this.reg, TRUE)
           [] OTHER ->
                Logged(Log("loggingHandler", "WARN",
                           "[NeuroClientWrapper] Received unknown/unimplemented command: "
                               \o frame.command), this.reg)

\* NeuroClient.handleMessage
BaseHandleMessage(this, frame) ==
    IF frame.syntax = "malformed"
    THEN Logged(Log("console", "ERROR", "[NeuroClient] Invalid JSON received:"), this.reg)
    ELSE IF frame.syntax = "null"
    THEN Thrown("TypeError", this.reg)
    ELSE CASE frame.command = "action" -> BaseHandleActionMessage(this, frame.data)
           [] OTHER ->
                Logged(Log("console", "WARN",
                           "[NeuroClient] Received unknown/unimplemented command:"), this.reg)

----------------------------------------------------------------------------
(* The state machine *)

Wrapper == client = "NeuroClientWrapper"

ws == Len(transports)

WsOpen == transports[ws].readyState = "OPEN"

Self == This(WsOpen, actionHandlers, registeredActions)

\* new WebSocket(u).  first keeps the command of the first frame that has gone out on
\* the connection ("" while there is none), as long as the connection lasts.
Socket(u) == [readyState |-> "CONNECTING", url |-> u, first |-> ""]

\* this.ws.send(...) of every frame of eff: they go out on the newest socket
Sent(ts, eff) ==
    IF Len(eff.frames) = 0 THEN ts
    ELSE [ts EXCEPT ![Len(ts)].first = IF @ = "" THEN eff.attempts[1].command ELSE @]

\* the record of an operation: what it was called with, the object it ran on, what it did
Ran(op, on, frame, actions, names, this, eff) ==
    [op |-> op, on |-> on, frame |-> frame, actions |-> actions, names |-> names,
     pre |-> this.reg, handlers |-> this.handlers, wsOpen |-> this.wsOpen,
     attempts |-> eff.attempts, frames |-> eff.frames, logs |-> eff.logs,
     calls |-> eff.calls, thrown |-> eff.thrown, trace |-> eff.trace,
     url |-> "", force |-> NoForce]

\* between operations: the client is single-threaded, so an operation or an event
\* handler runs to its end before the next call or event is taken up
Returned == Ran("", 0, NoFrame, <<>>, <<>>, This(FALSE, <<>>, <<>>), Nothing(<<>>))

Idle == last.op = ""

\* new NeuroClient(...) or new NeuroClientWrapper(...): connect() has run, and the
\* wrapper's constructor has pushed its own handleActionMessage
Init ==
    /\ client \in {"NeuroClient", "NeuroClientWrapper"}
    /\ url = "u1"
    /\ transports = << Socket("u1") >>
    /\ actionHandlers = IF client = "NeuroClientWrapper" THEN << "handleActionMessage" >> ELSE <<>>
    /\ registeredActions = <<>>
    /\ last = Returned

\* registerActions(actions)
RegisterActions(actions) ==
    /\ Idle
    /\ Len(registeredActions) + Len(actions) <= MaxReg
    /\ LET eff == IF Wrapper THEN registerActions(Self, actions, FALSE)
                  ELSE BaseRegisterActions(Self, actions)
       IN  /\ registeredActions' = eff.reg
           /\ transports' = Sent(transports, eff)
           /\ last' = Ran("registerActions", 0, NoFrame, actions, <<>>, Self, eff)
    /\ UNCHANGED <<client, url, actionHandlers>>

\* unregisterActions(actionNames)
UnregisterActions(actionNames) ==
    /\ Idle
    /\ LET eff == IF Wrapper THEN unregisterActions(Self, actionNames)
                  ELSE BaseUnregisterActions(Self, actionNames)
       IN  /\ registeredActions' = eff.reg
           /\ transports' = Sent(transports, eff)
           /\ last' = Ran("unregisterActions", 0, NoFrame, <<>>, actionNames, Self, eff)
    /\ UNCHANGED <<client, url, actionHandlers>>

\* forceActions(query, actionNames, state?, ephemeralContext?, priority?)
ForceActions(actionNames, force) ==
    /\ Idle
    /\ LET eff == IF Wrapper THEN forceActions(Self, actionNames, force)
                  ELSE BaseForceActions(Self, actionNames, force)
       IN  /\ transports' = Sent(transports, eff)
           /\ last' = [Ran("forceActions", 0, NoFrame, <<>>, actionNames, Self, eff)
                           EXCEPT !.force = force]
    /\ UNCHANGED <<client, url, actionHandlers, registeredActions>>

\* sendContext(messageText, silent?)
SendContext(messageText, silent) ==
    /\ Idle
    /\ LET eff == IF Wrapper THEN sendContext(Self, messageText, silent)
                  ELSE BaseSendContext(Self, messageText, silent)
       IN  /\ transports' = Sent(transports, eff)
           /\ last' = Ran("sendContext", 0, NoFrame, <<>>, <<>>, Self, eff)
    /\ UNCHANGED <<client, url, actionHandlers, registeredActions>>

UserHandlers == SelectSeq(actionHandlers, LAMBDA h : h # "handleActionMessage")

\* onAction(handler): the game registers its next handler
OnAction ==
    /\ Idle
    /\ Len(UserHandlers) < MaxHandlers
    /\ actionHandlers' = Append(actionHandlers, "h" \o ToString(Len(UserHandlers) + 1))
    /\ last' = Ran("onAction", 0, NoFrame, <<>>, <<>>, Self, Nothing(registeredActions))
    /\ UNCHANGED <<client, url, transports, registeredActions>>

\* ws.onmessage of socket i.  A socket fires message events only while its readyState
\* is OPEN.  Any open socket delivers, also one that a reconnect has replaced: connect()
\* attaches the callbacks to the socket, they run on the same client, and sendMessage
\* in them looks at this.ws, the newest socket.
Receive(i, frame) ==
    /\ Idle
    /\ transports[i].readyState = "OPEN"
    /\ (Wrapper /\ frame.command = "actions/reregister_all")
            => 2 * Len(registeredActions) <= MaxReg
    /\ LET eff == IF Wrapper THEN handleMessage(Self, frame) ELSE BaseHandleMessage(Self, frame)
       IN  /\ registeredActions' = eff.reg
           /\ transports' = Sent(transports, eff)
           /\ last' = Ran("handleMessage", i, frame, <<>>, <<>>, Self, eff)
    /\ UNCHANGED <<client, url, actionHandlers>>

\* ws.onopen of socket i: log, sendStartup(), onConnected()
Open(i) ==
    /\ Idle
    /\ transports[i].readyState = "CONNECTING"
    /\ LET opened == [transports EXCEPT ![i].readyState = "OPEN"]
           this == This(opened[ws].readyState = "OPEN", actionHandlers, registeredActions)
           eff  == Then(Logged(Log("console", "LOG",
                                   "[NeuroClient] Connected to Neuro-sama server."),
                               registeredActions),
                   Then(sendStartup(this, registeredActions),
                        Effects(<<>>, <<>>, <<>>, << Call("onConnected", "", NoFrame) >>, "",
                                registeredActions)))
       IN  /\ transports' = Sent(opened, eff)
           /\ last' = Ran("onopen", i, NoFrame, <<>>, <<>>, this, eff)
    /\ UNCHANGED <<client, url, actionHandlers, registeredActions>>

\* ws.onclose of socket i: the connection failed, the peer closed it, or a close() completed
Close(i) ==
    /\ Idle
    /\ transports[i].readyState # "CLOSED"
    /\ transports' = [transports EXCEPT ![i] = [Socket(@.url) EXCEPT !.readyState = "CLOSED"]]
    /\ last' = Ran("onclose", i, NoFrame, <<>>, <<>>, Self,
                   Logged(Log("console", "LOG", "[NeuroClient] WebSocket connection closed:"),
                          registeredActions))
    /\ UNCHANGED <<client, url, actionHandlers, registeredActions>>

\* a disconnect that calls close() whatever the readyState
disconnectAlways(ts) == [ts EXCEPT ![Len(ts)].readyState = "CLOSING"]

\* NeuroClient.disconnect: close() only an OPEN socket
disconnect(ts) ==
    IF ts[Len(ts)].readyState = "OPEN"
    THEN [ts EXCEPT ![Len(ts)].readyState = "CLOSING"]
    ELSE ts

Disconnect ==
    /\ Idle
    /\ transports' = disconnect(transports)
    /\ last' = Ran("disconnect", 0, NoFrame, <<>>, <<>>, Self, Nothing(registeredActions))
    /\ UNCHANGED <<client, url, actionHandlers, registeredActions>>

\* NeuroClientWrapper.reconnect(url?): disconnect(), set the url if one is given, connect()
Reconnect(u) ==
    /\ Idle
    /\ Wrapper
    /\ Len(transports) < MaxTransports
    /\ url' = IF u # "" THEN u ELSE url
    /\ transports' = Append(disconnect(transports), Socket(url'))
    /\ last' = [Ran("reconnect", 0, NoFrame, <<>>, <<>>, Self, Nothing(registeredActions))
                    EXCEPT !.url = u]
    /\ UNCHANGED <<client, actionHandlers, registeredActions>>

\* the operation has returned (or its exception has propagated out of the callback)
Return ==
    /\ ~Idle
    /\ last' = Returned
    /\ UNCHANGED <<client, url, transports, actionHandlers, registeredActions>>

Next ==
    \/ \E actions \in ActionLists : RegisterActions(actions)
    \/ \E actionNames \in NameLists : UnregisterActions(actionNames)
    \/ \E actionNames \in ForceNameLists, force \in Forces : ForceActions(actionNames, force)
    \/ \E silent \in Silents : SendContext("m", silent)
    \/ OnAction
    \/ \E i \in 1..Len(transports), frame \in InFrames : Receive(i, frame)
    \/ \E i \in 1..Len(transports) : Open(i)
    \/ \E i \in 1..Len(transports) : Close(i)
    \/ Disconnect
    \/ \E u \in {"", "u2"} : Reconnect(u)
    \/ Return

Spec == Init /\ [][Next]_vars

----------------------------------------------------------------------------
(* The composition wrapper _wrapper: it holds a NeuroClient in its field client, and its
   actionsArray is kept in registeredActions *)

Composition == client = "_wrapper"

\* _wrapper.registerActions
CompositionRegisterActions(this, actions) ==
    LET known  == KnownActions(actions, this.reg)
        pushed == this.reg \o actions
    IN  Then(IF Len(known) # 0
             THEN Logged(Log("console", "WARN", DuplicateWarning(known).text), pushed)
             ELSE Nothing(pushed),
             sendMessage(this, [command |-> "actions/register", game |-> Game,
                          data |-> [actions |-> actions]], pushed))

\* _wrapper.unregisterActions: the same loop as the wrapper's
CompositionUnregisterActions(this, actionNames) ==
    LET loop == UnregisterLoop(actionNames, <<>>, this.reg) IN
    IF loop.thrown # "" THEN Thrown(loop.thrown, loop.reg)
    ELSE Then(IF Len(loop.unknownNames) # 0
              THEN Logged(Log("console", "WARN", NotRegisteredInfo(loop.unknownNames).text),
                          loop.reg)
              ELSE Nothing(loop.reg),
              sendMessage(this, [command |-> "actions/unregister", game |-> Game,
                           data |-> [action_names |-> actionNames]], loop.reg))

\* _wrapper.sendContext: its body is this.sendContext(context, silent), a call of itself
\* and not of this.client.  The recursion has no end other than the engine's call stack
\* limit, which throws a RangeError; nothing is handed to the client.
CompositionSendContext(this, context, silent) == Thrown("RangeError", this.reg)

\* _wrapper.forceActions: likewise this.forceActions(...)
CompositionForceActions(this, actionNames, force) == Thrown("RangeError", this.reg)

CompositionInit ==
    /\ client = "_wrapper"
    /\ url = "u1"
    /\ transports = << Socket("u1") >>
    /\ actionHandlers = <<>>
    /\ registeredActions = <<>>
    /\ last = Returned

RegisterOnComposition(actions) ==
    /\ Idle
    /\ Len(registeredActions) + Len(actions) <= MaxReg
    /\ LET eff == CompositionRegisterActions(Self, actions)
       IN  /\ registeredActions' = eff.reg
           /\ transports' = Sent(transports, eff)
           /\ last' = Ran("registerActions", 0, NoFrame, actions, <<>>, Self, eff)
    /\ UNCHANGED <<client, url, actionHandlers>>

UnregisterOnComposition(actionNames) ==
    /\ Idle
    /\ LET eff == CompositionUnregisterActions(Self, actionNames)
       IN  /\ registeredActions' = eff.reg
           /\ transports' = Sent(transports, eff)
           /\ last' = Ran("unregisterActions", 0, NoFrame, <<>>, actionNames, Self, eff)
    /\ UNCHANGED <<client, url, actionHandlers>>

SendContextOnComposition(context, silent) ==
    /\ Idle
    /\ LET eff == CompositionSendContext(Self, context, silent)
       IN  /\ transports' = Sent(transports, eff)
           /\ last' = Ran("sendContext", 0, NoFrame, <<>>, <<>>, Self, eff)
    /\ UNCHANGED <<client, url, actionHandlers, registeredActions>>

ForceActionsOnComposition(actionNames, force) ==
    /\ Idle
    /\ LET eff == CompositionForceActions(Self, actionNames, force)
       IN  /\ transports' = Sent(transports, eff)
           /\ last' = [Ran("forceActions", 0, NoFrame, <<>>, actionNames, Self, eff)
                           EXCEPT !.force = force]
    /\ UNCHANGED <<client, url, actionHandlers, registeredActions>>

\* ws.onopen of the client made by initClient: log, sendStartup(), and the onConnected
\* callback, which pushes this.actionHandler, unbound, and empties actionsArray
OpenOnComposition(i) ==
    /\ Idle
    /\ transports[i].readyState = "CONNECTING"
    /\ LET opened == [transports EXCEPT ![i].readyState = "OPEN"]
           this == This(opened[ws].readyState = "OPEN", actionHandlers, registeredActions)
           eff  == Then(Logged(Log("console", "LOG",
                                   "[NeuroClient] Connected to Neuro-sama server."),
                               registeredActions),
                   Then(sendStartup(this, registeredActions),
                        Effects(<<>>, <<>>, <<>>, << Call("onConnected", "", NoFrame) >>, "",
                                <<>>)))
       IN  /\ transports' = Sent(opened, eff)
           /\ actionHandlers' = Append(actionHandlers, "actionHandler")
           /\ registeredActions' = eff.reg
           /\ last' = Ran("onopen", i, NoFrame, <<>>, <<>>, this, eff)
    /\ UNCHANGED <<client, url>>

CompositionNext ==
    \/ \E actions \in ActionLists : RegisterOnComposition(actions)
    \/ \E actionNames \in NameLists : UnregisterOnComposition(actionNames)
    \/ \E silent \in Silents : SendContextOnComposition("m", silent)
    \/ \E actionNames \in ForceNameLists, force \in Forces :
            ForceActionsOnComposition(actionNames, force)
    \/ \E i \in 1..Len(transports), frame \in InFrames : Receive(i, frame)
    \/ \E i \in 1..Len(transports) : OpenOnComposition(i)
    \/ \E i \in 1..Len(transports) : Close(i)
    \/ Disconnect
    \/ Return

CompositionSpec == CompositionInit /\ [][CompositionNext]_vars

----------------------------------------------------------------------------
(* What the claims speak about *)

Req == last.frame.data

\* the operation that ran last handled an inbound action request
IsActionRequest ==
    /\ last.op = "handleMessage"
    /\ last.frame.syntax = "json"
    /\ last.frame.command = "action"
    /\ Req.defined

HasData == Req.data.present /\ Req.data.text # ""

Decodable == ~HasData \/ JSONparse(Req.data.text).ok

\* the decoded params: {} when data is absent or empty
Decoded == IF HasData THEN JSONparse(Req.data.text).value ELSE JObject({})

NamesOf(reg) == {reg[i].name : i \in 1..Len(reg)}

Registered == Req.name \in NamesOf(last.pre)

\* the registry entry an inbound request is looked up to: the first under its name
Entry == last.pre[CHOOSE i \in 1..Len(last.pre) :
                    /\ last.pre[i].name = Req.name
                    /\ \A j \in 1..(i - 1) : last.pre[j].name # Req.name]

\* what a JSON Schema of the kind modelled asks of a value
Conforms(value, schema) ==
    /\ schema.type = "object" => value.type = "object"
    /\ \A k \in 1..Len(schema.properties) : \A m \in value.members :
            m[1] = schema.properties[k].key
                => /\ m[2] >= schema.properties[k].minimum
                   /\ m[2] <= schema.properties[k].maximum

\* the handlers registered through onAction, in registration order
OnActionHandlers == SelectSeq(last.handlers, LAMBDA h : h # "handleActionMessage")

\* the invocations of those handlers made by the last operation
OnActionCalls == SelectSeq(last.calls, LAMBDA c : c.handler \in Range(OnActionHandlers))

\* the last operation handed exactly one message to sendMessage, an action/result for the
\* request with the given success flag; it went out on the socket if this.ws was open and
\* was dropped otherwise
OneResult(success) ==
    /\ Len(last.attempts) = 1
    /\ last.attempts[1].command = "action/result"
    /\ last.attempts[1].data.id = Req.id
    /\ last.attempts[1].data.success = success
    /\ last.frames = IF last.wsOpen THEN << Stringify(last.attempts[1]) >> ELSE <<>>

LogsAt(level) == SelectSeq(last.logs, LAMBDA e : e.level = level)

IsReregister ==
    /\ Wrapper
    /\ last.op = "handleMessage"
    /\ last.frame.syntax = "json"
    /\ last.frame.command = "actions/reregister_all"

\* what the last operation handed to the wrapper's loggingHandler at a level
LoggedAt(level) ==
    SelectSeq(last.logs, LAMBDA e : e.sink = "loggingHandler" /\ e.level = level)

IsForce == last.op = "forceActions"

\* the names requested by the last forceActions that the registry did not hold
Unknown == SelectSeq(last.names, LAMBDA n : n \notin NamesOf(last.pre))

\* the last operation handed exactly one message to sendMessage; it went out on the
\* socket if this.ws was open and was dropped otherwise
OneMessage ==
    /\ Len(last.attempts) = 1
    /\ last.frames = IF last.wsOpen THEN << Stringify(last.attempts[1]) >> ELSE <<>>

\* the last operation was a call of the wrapper's registerActions: by the game, or by
\* handleMessage on actions/reregister_all, which passes the registry array itself
IsRegister == Wrapper /\ (last.op = "registerActions" \/ IsReregister)

\* the list that call was given, as it stood when the call was made
Candidates == IF IsReregister THEN last.pre ELSE last.actions

\* the names of the candidates that the registry already held, in order
KnownCandidates == SelectSeq(Names(Candidates), LAMBDA n : n \in NamesOf(last.pre))

----------------------------------------------------------------------------
(* Claims *)

\* C1: the registry never holds two entries with the same name.
C1_UniqueNames ==
    \A i, j \in 1..Len(registeredActions) :
        registeredActions[i].name = registeredActions[j].name => i = j

\* C2: an inbound action request for a registered name whose decoded params satisfy the
\* action's schema (or that has no schema) invokes every handler registered through
\* onAction exactly once, in registration order, each with {id, name, params}.
C2_HandlersInvokedInOrder ==
    (Wrapper /\ IsActionRequest /\ Decodable /\ Registered
        /\ (Entry.schema.defined => Conforms(Decoded, Entry.schema)))
    => OnActionCalls =
         [i \in 1..Len(OnActionHandlers) |->
            Call(OnActionHandlers[i], "game", Invocation(Req.id, Req.name, Decoded))]

\* C3: unregisterActions with a name that is not registered completes without error,
\* leaves the registry as it was, hands sendMessage one actions/unregister message with
\* the full requested list, and logs exactly one INFO entry.
C3_UnregisterUnknown ==
    (Wrapper /\ last.op = "unregisterActions"
        /\ \A k \in 1..Len(last.names) : last.names[k] \notin NamesOf(last.pre))
    => /\ last.thrown = ""
       /\ registeredActions = last.pre
       /\ Len(last.attempts) = 1
       /\ last.attempts[1].command = "actions/unregister"
       /\ last.attempts[1].data.action_names = last.names
       /\ Len(LogsAt("INFO")) = 1

\* C4: an actions/reregister_all command received while this.ws is open transmits exactly
\* one actions/register frame, listing the registry as it stood when the command arrived.
C4_ReregisterListsRegistry ==
    (IsReregister /\ last.wsOpen)
    => /\ Len(last.frames) = 1
       /\ last.frames[1].command = "actions/register"
       /\ last.frames[1].data.actions = last.pre

\* C5: handling actions/reregister_all logs no duplicate-name WARN.
C5_ReregisterNoWarn ==
    IsReregister => Len(LogsAt("WARN")) = 0

\* C6: after unregisterActions(names) has returned, no name of names that was in the
\* registry before the call is still in the registry.
C6_UnregisteredNamesGone ==
    (Wrapper /\ last.op = "unregisterActions" /\ last.thrown = "")
    => \A k \in 1..Len(last.names) :
          last.names[k] \in NamesOf(last.pre) => last.names[k] \notin NamesOf(registeredActions)

\* C7: an inbound action request whose params fail the schema of the registered action
\* produces exactly one action/result for its id with success = false, and no handler
\* is invoked.
C7_SchemaFailureAnswered ==
    (Wrapper /\ IsActionRequest /\ Decodable /\ Registered
        /\ Entry.schema.defined /\ ~Conforms(Decoded, Entry.schema))
    => /\ OneResult(FALSE)
       /\ last.calls = <<>>
       /\ last.thrown = ""

C7_Witness ==
    /\ Wrapper /\ IsActionRequest /\ Decodable /\ Registered
    /\ Entry.schema.defined /\ ~Conforms(Decoded, Entry.schema)
    /\ Len(OnActionHandlers) > 0
    /\ Len(last.frames) = 1

\* C8: the message of the action/result sent on a schema-validation failure contains the
\* bulleted list of every error the validator reported, a leading "instance." cut off.
C8_MessageListsErrors ==
    (Wrapper /\ IsActionRequest /\ Decodable /\ Registered
        /\ Entry.schema.defined /\ ~Conforms(Decoded, Entry.schema)
        /\ Len(last.attempts) = 1)
    => LET errors == Validate(Decoded, Entry.schema).errors IN
       /\ Includes(last.attempts[1].data.message, SchemaFailures(errors))
       /\ \A k \in 1..Len(errors) :
            Includes(last.attempts[1].data.message, "- " \o StripInstance(errors[k]))

\* C9, as claimed: an inbound action request whose name has no entry in the registry
\* produces exactly one action/result for its id with success = true and a message saying
\* the action is unknown, and no handler is invoked.
C9_UnknownAlwaysSucceeds ==
    (Wrapper /\ IsActionRequest /\ ~Registered)
    => /\ OneResult(TRUE)
       /\ Includes(last.attempts[1].data.message, "Unknown action")
       /\ last.calls = <<>>

\* C9, amended: an inbound action request whose data is absent, empty or decodable as JSON
\* and whose name has no entry in the registry produces exactly one action/result for its
\* id with success = true and a message saying the action is unknown, and no handler is
\* invoked.
C9_UnknownActionAnswered ==
    (Wrapper /\ IsActionRequest /\ Decodable /\ ~Registered)
    => /\ OneResult(TRUE)
       /\ Includes(last.attempts[1].data.message, "Unknown action")
       /\ Includes(last.attempts[1].data.message, Req.name)
       /\ last.calls = <<>>
       /\ last.thrown = ""

C9_Witness ==
    /\ Wrapper /\ IsActionRequest /\ Decodable /\ ~Registered
    /\ HasData
    /\ Len(last.pre) > 0
    /\ Len(OnActionHandlers) > 0
    /\ Len(last.frames) = 1

\* C10: an inbound action request whose data is present, non-empty and not decodable as
\* JSON produces exactly one action/result for its id with success = false and a message
\* starting with "Invalid action data:", and no handler is invoked; on the base client
\* and on the wrapper alike.
C10_InvalidDataAnswered ==
    (IsActionRequest /\ HasData /\ ~JSONparse(Req.data.text).ok)
    => /\ OneResult(FALSE)
       /\ StartsWith(last.attempts[1].data.message, "Invalid action data:")
       /\ last.calls = <<>>
       /\ last.thrown = ""

C10_Witness ==
    /\ IsActionRequest /\ HasData /\ ~JSONparse(Req.data.text).ok
    /\ client = "NeuroClient"
    /\ Len(last.handlers) > 0
    /\ Len(last.frames) = 1

\* C11: when no handler has been registered through onAction, an inbound action request
\* that passes parameter parsing, registry lookup and schema validation causes one ERROR
\* log saying that no action handlers are registered, and no action/result is sent.
C11_NoHandlersLogged ==
    (/\ IsActionRequest /\ Decodable
     /\ Len(OnActionHandlers) = 0
     /\ Wrapper => (Registered /\ (Entry.schema.defined => Conforms(Decoded, Entry.schema))))
    => /\ Len(LogsAt("ERROR")) = 1
       /\ Includes(LogsAt("ERROR")[1].text, "No action handlers registered")
       /\ last.attempts = <<>>

\* C12: no inbound text frame makes handleMessage throw.
C12_HandleMessageNeverThrows ==
    last.op = "handleMessage" => last.thrown = ""

\* C13: forceActions on the wrapper, when some but not all of the requested names are
\* unknown to the registry (also when exactly one is), logs exactly one WARN, and that
\* WARN names the unknown names.
C13_OneWarnForUnknown ==
    (Wrapper /\ IsForce /\ Len(Unknown) > 0 /\ Len(Unknown) < Len(last.names))
    => /\ Len(LoggedAt("WARN")) = 1
       /\ \A n \in Range(Unknown) : Includes(LoggedAt("WARN")[1].text, "\"" \o n \o "\"")

\* C14: a forceActions call without priority and without ephemeralContext, made while the
\* socket is open, sends a frame with priority "low" and ephemeral_context false, on the
\* wrapper as on the base client.
C14_ForceDefaults ==
    (/\ IsForce /\ last.wsOpen
     /\ last.force.priority = "undefined"
     /\ last.force.ephemeralContext = "undefined")
    => /\ Len(last.frames) = 1
       /\ {"priority", "ephemeral_context"} \subseteq DOMAIN last.frames[1].data
       /\ last.frames[1].data.priority = "low"
       /\ last.frames[1].data.ephemeral_context = "false"

\* C15: every forceActions call made while the socket is open transmits exactly one
\* frame, an actions/force frame whose action_names is the requested list, in order and
\* unfiltered, whichever of the names are registered.
C15_ForceListsRequestedNames ==
    (IsForce /\ last.wsOpen)
    => /\ Len(last.frames) = 1
       /\ last.frames[1].command = "actions/force"
       /\ last.frames[1].game = Game
       /\ last.frames[1].data.query = last.force.query
       /\ last.frames[1].data.action_names = last.names

C15_Witness ==
    /\ Wrapper /\ IsForce /\ last.wsOpen
    /\ Len(Unknown) > 0 /\ Len(Unknown) < Len(last.names)
    /\ Len(last.frames) = 1

\* C16: if every name requested in forceActions is unknown to the registry, exactly one
\* ERROR and no WARN is handed to the logging handler, and the actions/force message is
\* still sent, with the requested names and the arguments given: one message is handed
\* to sendMessage, and it goes out whenever the socket is open.
C16_AllUnknownStillSent ==
    (Wrapper /\ IsForce /\ Len(Unknown) = Len(last.names))
    => /\ Len(LoggedAt("ERROR")) = 1
       /\ Includes(LoggedAt("ERROR")[1].text, "All specified actions are unknown")
       /\ LoggedAt("WARN") = <<>>
       /\ OneMessage
       /\ last.attempts[1].command = "actions/force"
       /\ last.attempts[1].data.action_names = last.names
       /\ last.attempts[1].data.query = last.force.query
       /\ last.attempts[1].data.state = last.force.state
       /\ last.thrown = ""

C16_Witness ==
    /\ Wrapper /\ IsForce /\ Len(Unknown) = Len(last.names)
    /\ Len(last.names) > 0
    /\ Len(last.pre) > 0
    /\ Len(last.frames) = 1

\* C17: every registerActions call made while the socket is open transmits exactly one
\* frame, an actions/register frame whose actions list is the list passed to the call,
\* in order, entries whose name is already registered included.  The call handleMessage
\* makes on actions/reregister_all passes the registry array itself, which the call
\* extends before it builds the frame: the frame lists that array as it then stands.
C17_RegisterListsPassedActions ==
    /\ (last.op = "registerActions" /\ last.wsOpen)
         => last.frames = << [command |-> "actions/register", game |-> Game,
                              data |-> [actions |-> last.actions]] >>
    /\ (IsReregister /\ last.wsOpen)
         => last.frames = << [command |-> "actions/register", game |-> Game,
                              data |-> [actions |-> registeredActions]] >>

C17_Witness ==
    /\ Wrapper /\ last.op = "registerActions" /\ last.wsOpen
    /\ Len(KnownCandidates) > 0
    /\ Len(last.frames) = 1

C19_ReconnectTearsDown ==
    last.op = "reconnect"
    => /\ transports[ws].readyState = "CONNECTING"
       /\ transports[ws].url = IF last.url # "" THEN last.url ELSE transports[ws - 1].url
       /\ \A i \in 1..(ws - 1) : transports[i].readyState \in {"CLOSING", "CLOSED"}

\* C20: each time a socket reaches Open the client sends a startup frame carrying the
\* game name and only then invokes onConnected, and startup is the first frame that
\* goes out on every connection.
C20_StartupOnOpen ==
    /\ last.op = "onopen"
         => /\ last.frames = << [command |-> "startup", game |-> Game, data |-> NoData] >>
            /\ last.trace = << "send startup", "call onConnected" >>
            /\ transports[last.on].first = "startup"
    /\ \A i \in 1..Len(transports) : transports[i].first \in {"", "startup"}

\* C21: disconnect closes the socket only if it is open: a call on an open socket starts
\* its closing, and a call on a socket in any other state, a second call in a row
\* included, changes no socket; no call raises an error.
C21_DisconnectOnlyWhenOpen ==
    [][ last'.op = "disconnect"
          => /\ last'.thrown = ""
             /\ transports' = IF transports[ws].readyState = "OPEN"
                               THEN [transports EXCEPT ![ws].readyState = "CLOSING"]
                               ELSE transports ]_vars

C21_Witness ==
    /\ last.op = "disconnect"
    /\ ~last.wsOpen
    /\ transports[ws].readyState = "CLOSING"

\* C22: an operation that sends while the socket is not open transmits nothing and logs
\* an error for each message, and nothing is kept for later: the frames an operation
\* puts on the socket are its own messages, all of them when the socket is open and none
\* when it is not, so no frame is handed to a socket that is not open.
C22_NotOpenDropped ==
    /\ last.frames = IF last.wsOpen
                     THEN [i \in 1..Len(last.attempts) |-> Stringify(last.attempts[i])]
                     ELSE <<>>
    /\ ~last.wsOpen
         => Len(SelectSeq(last.logs,
                          LAMBDA e : e.level = "ERROR"
                                        /\ Includes(e.text, "WebSocket is not open")))
              = Len(last.attempts)

C22_Witness ==
    /\ last.op = "sendContext"
    /\ ~last.wsOpen
    /\ Len(last.attempts) = 1
    /\ Len(transports) > 1

\* C23: handling an incoming actions/reregister_all command leaves the registry as it was.
C23_ReregisterKeepsRegistry ==
    IsReregister => registeredActions = last.pre

\* the commands the client's handleMessage has a case for
Recognized == IF Wrapper THEN {"action", "actions/reregister_all"} ELSE {"action"}

Undecodable == last.op = "handleMessage" /\ last.frame.syntax = "malformed"

Unrecognized ==
    /\ last.op = "handleMessage"
    /\ last.frame.syntax = "json"
    /\ last.frame.command \notin Recognized

\* C24: an inbound frame that fails JSON decoding is logged at ERROR and one whose
\* command is not recognized is logged at WARN, and either is dropped with no effect: the
\* registry and the handler list are unchanged, no handler is invoked, no frame is sent
\* and nothing is thrown.
C24_BadFramesDropped ==
    (Undecodable \/ Unrecognized)
    => /\ Len(last.logs) = 1
       /\ last.logs[1].level = IF Undecodable THEN "ERROR" ELSE "WARN"
       /\ registeredActions = last.pre
       /\ actionHandlers = last.handlers
       /\ last.calls = <<>>
       /\ last.attempts = <<>>
       /\ last.frames = <<>>
       /\ last.thrown = ""

C24_Witness ==
    /\ Wrapper /\ Undecodable
    /\ Len(last.pre) > 0
    /\ Len(OnActionHandlers) > 0

\* the entry of a name that entered the registry first among those it holds
First(reg, n) ==
    reg[CHOOSE i \in 1..Len(reg) :
            /\ reg[i].name = n
            /\ \A j \in 1..(i - 1) : reg[j].name # n]

\* the registry holds entries with different schemas under the name requested
RegisteredTwice ==
    /\ Registered
    /\ \E i, j \in 1..Len(last.pre) :
            /\ last.pre[i].name = Req.name
            /\ last.pre[j].name = Req.name
            /\ last.pre[i].schema # last.pre[j].schema

\* C25: when a name has been registered more than once with different schemas, an inbound
\* action for it is validated against the entry registered first and not against a later
\* one: the request is refused exactly when its params fail that entry's schema and is
\* dispatched otherwise; and that entry stays the first of its name through every step
\* that is not an unregisterActions call naming it.
C25_ValidatedAgainstOriginal ==
    /\ [](  (Wrapper /\ IsActionRequest /\ Decodable /\ RegisteredTwice)
            => IF First(last.pre, Req.name).schema.defined
                    /\ ~Conforms(Decoded, First(last.pre, Req.name).schema)
               THEN OneResult(FALSE) /\ last.calls = <<>>
               ELSE /\ last.attempts = <<>>
                    /\ Len(last.calls) > 0
                    /\ last.calls[1].arg = Invocation(Req.id, Req.name, Decoded)  )
    /\ [][ \A n \in ActionNames :
              (/\ Wrapper
               /\ n \in NamesOf(registeredActions)
               /\ ~(last'.op = "unregisterActions" /\ n \in Range(last'.names)))
              => /\ n \in NamesOf(registeredActions')
                 /\ First(registeredActions', n) = First(registeredActions, n) ]_vars

C25_Witness ==
    /\ Wrapper /\ IsActionRequest /\ Decodable /\ RegisteredTwice
    /\ last.pre = << GuessNumber, PlainA >>
    /\ ~Conforms(Decoded, GuessNumber.schema)
    /\ OneResult(FALSE)
    /\ Len(last.frames) = 1

C27_OneStartupPerConnection ==
    last.op = "onopen"
    => IF last.on = ws
       THEN /\ last.frames = << [command |-> "startup", game |-> Game, data |-> NoData] >>
            /\ Len(last.calls) = 1
       ELSE /\ last.attempts = <<>>
            /\ last.calls = <<>>

\* C28: a registerActions or unregisterActions call whose frame is not transmitted, the
\* socket not being open, does not change the registry, so that every name in the
\* registry was listed in a transmitted actions/register frame.
C28_RegistryFollowsFrames ==
    (/\ Wrapper
     /\ last.op \in {"registerActions", "unregisterActions"}
     /\ last.frames = <<>>)
    => registeredActions = last.pre

\* C29: an unregisterActions call that ends in an error leaves the registry exactly as it
\* was before the call.
C29_UnregisterAllOrNothing ==
    (Wrapper /\ last.op = "unregisterActions" /\ last.thrown # "")
    => registeredActions = last.pre

\* C30: on the composition wrapper, sendContext and forceActions terminate and delegate
\* to the client it holds: each call ends without an error and hands exactly one context
\* message, or one actions/force message, to the client's sendMessage.
C30_CompositionDelegates ==
    (Composition /\ last.op \in {"sendContext", "forceActions"})
    => /\ last.thrown = ""
       /\ Len(last.attempts) = 1
       /\ last.attempts[1].command =
             IF last.op = "sendContext" THEN "context" ELSE "actions/force"

====
